---- MODULE Spec2Model ----
(***************************************************************************)
(* The validated EmailAddress entity (src/server/models.py and             *)
(* src/bin/validations.py), the unit of work it is staged in, and the two  *)
(* scripts that drive it (src/bin/validations.py, src/server/seed.py).     *)
(*                                                                         *)
(* A string is a tuple of characters; Python's None is the tuple None.     *)
(* A table is a set of rows [id, email, backup_email].                     *)
(***************************************************************************)
EXTENDS Naturals, Sequences, FiniteSets

VARIABLES
    objs,      \* the EmailAddress instances constructed so far, by reference 1..Len(objs)
    pending,   \* session: references staged by add/add_all, in insert order
    rows,      \* storage: the committed rows of the entity's table
    tables,    \* storage: names of the tables that exist
    wiped,     \* session: the open transaction holds an uncommitted bulk delete
    failed,    \* session: a flush raised IntegrityError and rollback() is due
    err,       \* the exception the last operation raised, "none", or "blocked"
               \* once the except branch has printed and rolled back
    pc,        \* scripts: the statement the running script is at
    runs,      \* scripts: completed runs of the script
    n          \* seed script: the loop variable of `for n in range(25)`

vars == <<objs, pending, rows, tables, wiped, failed, err, pc, runs, n>>

(* ------------------------------ bounds --------------------------------- *)
\* longest string drawn as an argument in ValidateSpec
MaxLen == 2
\* largest primary key the storage hands out in Spec
MaxId == 2
\* rows a table may hold before the seed script starts in SeedSpec
MaxPrior == 2
\* runs of the validations script in ScriptSpec
MaxRuns == 25

(* ------------------------------ strings -------------------------------- *)
Alphabet == {"a", "@"}

None == <<"NoneType">>

RECURSIVE StringsOfLen(_)
StringsOfLen(k) ==
    IF k = 0 THEN {<<>>}
    ELSE {Append(s, c) : s \in StringsOfLen(k - 1), c \in Alphabet}

\* every string over Alphabet of length 0..MaxLen
Strings == UNION {StringsOfLen(k) : k \in 0..MaxLen}

\* '@' in address
HasAt(address) == \E i \in 1..Len(address) : address[i] = "@"

\* address.count(c)
Count(address, c) == Cardinality({i \in 1..Len(address) : address[i] = c})

(* ------------------------------ entity --------------------------------- *)
Keys == {"email", "backup_email"}

NoId == 0

\* variant: refuses every address that does not hold exactly one '@'
validate_email_reject_many(key, address) ==
    IF Count(address, "@") # 1
    THEN [raised |-> TRUE, value |-> address]
    ELSE [raised |-> FALSE, value |-> address]

\* variant: lets the empty address through
validate_email_accept_empty(key, address) ==
    IF Len(address) > 0 /\ ~HasAt(address)
    THEN [raised |-> TRUE, value |-> address]
    ELSE [raised |-> FALSE, value |-> address]

\* @validates('email', 'backup_email'): raise ValueError unless '@' in address,
\* else return address, the value the attribute is then set to
validate_email(key, address) ==
    IF ~HasAt(address)
    THEN [raised |-> TRUE, value |-> address]
    ELSE [raised |-> FALSE, value |-> address]

\* setattr(obj, key, address) on a mapped attribute with a validator
SetAttr(obj, key, address) ==
    LET v == validate_email(key, address)
    IN  IF v.raised
        THEN [raised |-> TRUE, obj |-> obj]
        ELSE [raised |-> FALSE, obj |-> [obj EXCEPT ![key] = v.value]]

\* a fresh instance: nullable columns without default read as None until set
Blank == [id |-> NoId, email |-> None, backup_email |-> None, state |-> "transient"]

\* a name of the caller that holds no instance
Unbound == [Blank EXCEPT !.state = "unbound"]

\* EmailAddress(id=i, email=e, backup_email=b): the declarative constructor sets
\* each keyword given, in order; None stands for a keyword left out
EmailAddress(i, e, b) ==
    LET o0 == [Blank EXCEPT !.id = i]
        s1 == IF e = None THEN [raised |-> FALSE, obj |-> o0] ELSE SetAttr(o0, "email", e)
        s2 == IF s1.raised \/ b = None THEN s1 ELSE SetAttr(s1.obj, "backup_email", b)
    IN  s2

(* ------------------------------ storage -------------------------------- *)
\* __tablename__ of the standalone entity and of the embedded entity
AddressTable == "address"

EmailAddressTable == "emailaddress"

TableIds(table) == {r.id : r \in table}

Max(S) == CHOOSE x \in S : \A y \in S : y <= x

\* variant: the two address columns exchanged
Row_swapped(obj, id) ==
    [id |-> id, email |-> obj.backup_email, backup_email |-> obj.email]

\* the row an instance is written as
Row(obj, id) == [id |-> id, email |-> obj.email, backup_email |-> obj.backup_email]

\* variant: every insert without id takes the key 1
NextRowId_one(table) == 1

\* id = Column(Integer, primary_key=True) on sqlite: an insert without id takes
\* the largest id in the table plus one, 1 in an empty table
NextRowId(table) == IF table = {} THEN 1 ELSE Max(TableIds(table)) + 1

\* INSERT of one instance; the primary key is the table's only constraint, and
\* a second row with a key the table holds raises IntegrityError
Insert(table, obj) ==
    LET id == IF obj.id = NoId THEN NextRowId(table) ELSE obj.id
    IN  IF id \in TableIds(table)
        THEN [raised |-> TRUE, table |-> table, id |-> id]
        ELSE [raised |-> FALSE, table |-> table \cup {Row(obj, id)}, id |-> id]

\* UPDATE of the rows of the persistent instances of os to their current values
Updated(table, os) ==
    {LET m == {i \in DOMAIN os : os[i].state = "persistent" /\ os[i].id = r.id}
     IN  IF m = {} THEN r ELSE Row(os[CHOOSE i \in m : TRUE], r.id) : r \in table}

\* SELECT of the instances' table by primary key
QueryGet(table, id) == {r \in table : r.id = id}

(* ------------------------------ session -------------------------------- *)
\* the session and the storage behind it, as one value
Here ==
    [objs |-> objs, pending |-> pending, rows |-> rows, tables |-> tables,
     wiped |-> wiped, failed |-> failed, err |-> err]

Becomes(s) ==
    /\ objs' = s.objs
    /\ pending' = s.pending
    /\ rows' = s.rows
    /\ tables' = s.tables
    /\ wiped' = s.wiped
    /\ failed' = s.failed
    /\ err' = s.err

\* the table as the open transaction sees it
View(s) == IF s.wiped THEN {} ELSE s.rows

\* INSERT of the staged instances in the order they were added; the first
\* IntegrityError ends the flush and none of the instances leaves the staged set
RECURSIVE FlushInserts(_, _, _)
FlushInserts(table, os, refs) ==
    IF refs = <<>>
    THEN [raised |-> FALSE, table |-> table, objs |-> os]
    ELSE LET r == Head(refs)
             ins == Insert(table, os[r])
         IN  IF ins.raised
             THEN [raised |-> TRUE, table |-> table, objs |-> os]
             ELSE FlushInserts(ins.table,
                               [os EXCEPT ![r].id = ins.id, ![r].state = "persistent"],
                               Tail(refs))

\* session.flush(): the changed persistent instances are updated, then the
\* staged ones inserted
Flush(s) == FlushInserts(Updated(View(s), s.objs), s.objs, s.pending)

\* ref = EmailAddress(id=i, email=e, backup_email=b): a ValueError leaves the
\* name as it was bound; os is the binding the statement makes of the instance
construct(s, c, os) ==
    IF c.raised
    THEN [s EXCEPT !.err = "ValueError"]
    ELSE [s EXCEPT !.objs = os, !.err = "none"]

\* instance.key = address
assign(s, r, key, address) ==
    LET a == SetAttr(s.objs[r], key, address)
    IN  IF a.raised
        THEN [s EXCEPT !.err = "ValueError"]
        ELSE [s EXCEPT !.objs[r] = a.obj, !.err = "none"]

RECURSIVE Stage(_, _)
Stage(os, refs) ==
    IF refs = <<>> THEN os
    ELSE Stage([os EXCEPT ![Head(refs)].state = "pending"], Tail(refs))

\* variant: stages the first instance of the list only
add_all_first(s, refs) ==
    IF refs = <<>> THEN [s EXCEPT !.err = "none"]
    ELSE [s EXCEPT !.objs = Stage(s.objs, <<Head(refs)>>),
                   !.pending = Append(s.pending, Head(refs)), !.err = "none"]

\* session.add_all(instances): stage each instance not yet in the session
add_all(s, refs) ==
    [s EXCEPT !.objs = Stage(s.objs, refs), !.pending = s.pending \o refs, !.err = "none"]

\* session.add(instance)
add(s, r) == add_all(s, <<r>>)

\* session.commit(): flush, then make the transaction's table the stored one
commit(s) ==
    LET f == Flush(s)
    IN  IF f.raised
        THEN [s EXCEPT !.failed = TRUE, !.err = "IntegrityError"]
        ELSE [s EXCEPT
                !.objs = f.objs,
                !.pending = <<>>,
                !.rows = f.table,
                !.wiped = FALSE,
                !.err = "none"]

\* the stored values of the row an instance was loaded from
Reloaded(obj, table) ==
    LET m == QueryGet(table, obj.id)
    IN  IF m = {} THEN obj
        ELSE LET row == CHOOSE x \in m : TRUE
             IN  [obj EXCEPT !.email = row.email, !.backup_email = row.backup_email]

\* variant: ends the transaction and leaves the staged instances staged
rollback_keep_staged(s) ==
    [s EXCEPT !.wiped = FALSE, !.failed = FALSE, !.err = "none"]

\* session.rollback(): the transaction's changes are undone; staged instances
\* are expunged, persistent ones restored to their stored values
rollback(s) ==
    [s EXCEPT
        !.objs = [r \in DOMAIN s.objs |->
                    CASE s.objs[r].state = "pending" ->
                           [s.objs[r] EXCEPT !.state = "transient"]
                      [] s.objs[r].state = "persistent" ->
                           Reloaded(s.objs[r], s.rows)
                      [] OTHER -> s.objs[r]],
        !.pending = <<>>,
        !.wiped = FALSE,
        !.failed = FALSE,
        !.err = "none"]

\* except IntegrityError: print("Integrity violation blocked!"); session.rollback()
except_IntegrityError(s) == [rollback(s) EXCEPT !.err = "blocked"]

\* variant: the DELETE never reaches the transaction
delete_staged(s) == [s EXCEPT !.err = "none"]

\* EmailAddress.query.delete(): autoflush, then DELETE of every row in the open
\* transaction; the instances of the deleted rows leave the session, and the
\* caller's names for them are dropped
delete(s) ==
    LET f == Flush(s)
    IN  IF f.raised
        THEN [s EXCEPT !.failed = TRUE, !.err = "IntegrityError"]
        ELSE [s EXCEPT
                !.objs = [r \in DOMAIN f.objs |->
                            IF f.objs[r].state = "persistent" THEN Unbound ELSE f.objs[r]],
                !.pending = <<>>,
                !.wiped = TRUE,
                !.err = "none"]

\* variant: creates the table anew whether it exists or not
create_all_recreate(s, name) ==
    [s EXCEPT !.tables = s.tables \cup {name}, !.rows = {}, !.err = "none"]

\* base.metadata.create_all(db): CREATE TABLE for each table that does not exist
create_all(s, name) ==
    IF name \in s.tables
    THEN [s EXCEPT !.err = "none"]
    ELSE [s EXCEPT !.tables = s.tables \cup {name}, !.rows = {}, !.err = "none"]

(* ------------------------- the session's operations --------------------- *)
\* arguments drawn in Spec for each attribute: a string without '@' (the empty
\* one for email) and a string with '@' (two of them for backup_email)
Args(key) ==
    IF key = "email"
    THEN {<<>>, <<"a", "@">>}
    ELSE {<<"a">>, <<"@", "@">>}

\* the id keyword of the constructor: left out, or given
IdChoices == {NoId, 1}

ScriptVars == <<pc, runs, n>>

\* the names the callers bind instances to: `email` (validations.py) and `em`
\* (seed.py)
Refs == {"email", "em"}

Transient == {r \in DOMAIN objs : objs[r].state = "transient"}

\* the lists add_all may be handed: two distinct instances outside the session
Lists == {l \in Transient \X Transient : l[1] # l[2]}

TableExists == AddressTable \in tables

\* the storage hands out no key above MaxId
WithinIds(s) == \A r \in s.rows : r.id <= MaxId

\* the session holds a change of the instance that r names: the instance is
\* staged, or persistent and differs from its stored row
Held(r) ==
    \/ objs[r].state = "pending"
    \/ objs[r].state = "persistent" /\ Row(objs[r], objs[r].id) \notin rows

\* r = EmailAddress(id=i, email=e, backup_email=b); a name is bound anew once
\* the session holds no change of the instance it names
ConstructWith(r, i, e, b) ==
    /\ pc = "api" /\ ~failed
    /\ ~Held(r)
    /\ Becomes(construct(Here, EmailAddress(i, e, b),
                         [objs EXCEPT ![r] = EmailAddress(i, e, b).obj]))
    /\ UNCHANGED ScriptVars

Construct ==
    \E r \in Refs, i \in IdChoices,
       e \in Args("email") \cup {None}, b \in Args("backup_email") \cup {None} :
       ConstructWith(r, i, e, b)

\* r.key = address
AssignWith(r, key, address) ==
    /\ pc = "api" /\ ~failed
    /\ objs[r].state # "unbound"
    /\ Becomes(assign(Here, r, key, address))
    /\ UNCHANGED ScriptVars

Assign ==
    \E r \in Refs, key \in Keys : \E address \in Args(key) : AssignWith(r, key, address)

Add ==
    /\ pc = "api" /\ ~failed
    /\ \E r \in Transient : Becomes(add(Here, r))
    /\ UNCHANGED ScriptVars

AddAll ==
    /\ pc = "api" /\ ~failed
    /\ \E refs \in Lists : Becomes(add_all(Here, refs))
    /\ UNCHANGED ScriptVars

Commit ==
    /\ pc = "api" /\ ~failed /\ TableExists
    /\ WithinIds(commit(Here))
    /\ Becomes(commit(Here))
    /\ UNCHANGED ScriptVars

\* the except branch of the statement that raised IntegrityError
Recover ==
    /\ pc = "api" /\ failed
    /\ Becomes(except_IntegrityError(Here))
    /\ UNCHANGED ScriptVars

\* session.rollback() of a transaction that has not failed
Rollback ==
    /\ pc = "api" /\ ~failed
    /\ Becomes(rollback(Here))
    /\ UNCHANGED ScriptVars

DeleteAll ==
    /\ pc = "api" /\ ~failed /\ TableExists
    /\ Becomes(delete(Here))
    /\ UNCHANGED ScriptVars

CreateAll ==
    /\ pc = "api" /\ ~failed
    /\ Becomes(create_all(Here, AddressTable))
    /\ UNCHANGED ScriptVars

\* a database file left by an earlier process: no table, an empty table, or a
\* table holding one valid row
StoredBefore ==
    {[tables |-> {}, rows |-> {}],
     [tables |-> {AddressTable}, rows |-> {}],
     [tables |-> {AddressTable},
      rows |-> {Row(EmailAddress(NoId, <<"a", "@">>, <<"@", "@">>).obj, 1)}]}

Fresh ==
    /\ objs = [r \in Refs |-> Unbound]
    /\ pending = <<>>
    /\ wiped = FALSE
    /\ failed = FALSE
    /\ err = "none"
    /\ runs = 0
    /\ n = 0

Init ==
    /\ Fresh
    /\ pc = "api"
    /\ \E db \in StoredBefore : tables = db.tables /\ rows = db.rows

Next ==
    \/ Construct
    \/ Assign
    \/ Add
    \/ AddAll
    \/ Commit
    \/ Recover
    \/ Rollback
    \/ DeleteAll
    \/ CreateAll

Spec == Init /\ [][Next]_vars

(* ------------------- the validator on every string ---------------------- *)
\* email = EmailAddress(email=e, backup_email=b), once
ValidateConstruct(e, b) ==
    /\ pc = "validate"
    /\ objs["email"].state = "unbound"
    /\ Becomes(construct(Here, EmailAddress(NoId, e, b),
                         [objs EXCEPT !["email"] = EmailAddress(NoId, e, b).obj]))
    /\ UNCHANGED ScriptVars

\* email.key = address
ValidateAssign(key, address) ==
    /\ pc = "validate"
    /\ objs["email"].state # "unbound"
    /\ Becomes(assign(Here, "email", key, address))
    /\ UNCHANGED ScriptVars

\* session.add(email)
ValidateAdd ==
    /\ pc = "validate"
    /\ objs["email"].state = "transient"
    /\ Becomes(add(Here, "email"))
    /\ UNCHANGED ScriptVars

ValidateInit ==
    /\ Fresh
    /\ pc = "validate"
    /\ \E db \in StoredBefore : tables = db.tables /\ rows = db.rows

ValidateNext ==
    \/ \E e \in Strings \cup {None}, b \in Strings \cup {None} : ValidateConstruct(e, b)
    \/ \E key \in Keys, address \in Strings : ValidateAssign(key, address)
    \/ ValidateAdd

ValidateSpec == ValidateInit /\ [][ValidateNext]_vars

(* --------------------- src/bin/validations.py --------------------------- *)
\* 'firstname@student.com'
FirstName ==
    <<"f", "i", "r", "s", "t", "n", "a", "m", "e", "@",
      "s", "t", "u", "d", "e", "n", "t", ".", "c", "o", "m">>

\* 'firstnameBackup@student.com'
FirstNameBackup ==
    <<"f", "i", "r", "s", "t", "n", "a", "m", "e", "B", "a", "c", "k", "u", "p", "@",
      "s", "t", "u", "d", "e", "n", "t", ".", "c", "o", "m">>

\* base.metadata.create_all(db)
ScriptCreateAll ==
    /\ pc = "create_all"
    /\ Becomes(create_all(Here, AddressTable))
    /\ pc' = "construct"
    /\ UNCHANGED <<runs, n>>

\* email = EmailAddress(email=..., backup_email=...); an uncaught ValueError
\* ends the process
ScriptConstruct ==
    /\ pc = "construct"
    /\ LET c == EmailAddress(NoId, FirstName, FirstNameBackup)
       IN  /\ Becomes(construct(Here, c, [objs EXCEPT !["email"] = c.obj]))
           /\ pc' = IF c.raised THEN "exit" ELSE "add"
    /\ UNCHANGED <<runs, n>>

\* session.add(email)
ScriptAdd ==
    /\ pc = "add"
    /\ Becomes(add(Here, "email"))
    /\ pc' = "commit"
    /\ UNCHANGED <<runs, n>>

\* try: session.commit()
\* except IntegrityError: print("Integrity violation blocked!"); session.rollback()
ScriptCommit ==
    /\ pc = "commit"
    /\ LET c == commit(Here)
       IN  IF c.err = "IntegrityError"
           THEN Becomes(except_IntegrityError(c))
           ELSE Becomes(c)
    /\ pc' = "exit"
    /\ UNCHANGED <<runs, n>>

\* the process ends, and the script is started again on the same database file
ScriptExit ==
    /\ pc = "exit"
    /\ runs < MaxRuns
    /\ runs' = runs + 1
    /\ objs' = [r \in Refs |-> Unbound]
    /\ pending' = <<>>
    /\ wiped' = FALSE
    /\ failed' = FALSE
    /\ err' = "none"
    /\ pc' = "create_all"
    /\ UNCHANGED <<rows, tables, n>>

\* the first run finds no database file
ScriptInit ==
    /\ Fresh
    /\ pc = "create_all"
    /\ tables = {}
    /\ rows = {}

ScriptNext ==
    \/ ScriptCreateAll
    \/ ScriptConstruct
    \/ ScriptAdd
    \/ ScriptCommit
    \/ ScriptExit

ScriptSpec == ScriptInit /\ [][ScriptNext]_vars

(* ------------------------ src/server/seed.py ---------------------------- *)
\* range(25)
SeedCount == 25

\* 'email@email.com'
SeedEmail ==
    <<"e", "m", "a", "i", "l", "@", "e", "m", "a", "i", "l", ".", "c", "o", "m">>

\* EmailAddress.query.delete(); emails = []
SeedDelete ==
    /\ pc = "delete"
    /\ Becomes([delete(Here) EXCEPT !.objs = <<>>])
    /\ pc' = IF delete(Here).err = "none" THEN "loop" ELSE "exit"
    /\ n' = 0
    /\ UNCHANGED runs

\* for n in range(25): em = EmailAddress(...); emails.append(em)
SeedLoop ==
    /\ pc = "loop"
    /\ n < SeedCount
    /\ LET c == EmailAddress(NoId, SeedEmail, SeedEmail)
       IN  /\ Becomes(construct(Here, c, Append(objs, c.obj)))
           /\ pc' = IF c.raised THEN "exit" ELSE "loop"
    /\ n' = n + 1
    /\ UNCHANGED runs

\* db.session.add_all(emails)
SeedAddAll ==
    /\ pc = "loop"
    /\ n = SeedCount
    /\ Becomes(add_all(Here, [i \in 1..Len(objs) |-> i]))
    /\ pc' = "commit"
    /\ UNCHANGED <<runs, n>>

\* db.session.commit()
SeedCommit ==
    /\ pc = "commit"
    /\ Becomes(commit(Here))
    /\ pc' = "exit"
    /\ UNCHANGED <<runs, n>>

\* the process ends, and the seed script is run again
SeedExit ==
    /\ pc = "exit"
    /\ runs < MaxRuns
    /\ runs' = runs + 1
    /\ objs' = <<>>
    /\ pending' = <<>>
    /\ wiped' = FALSE
    /\ failed' = FALSE
    /\ err' = "none"
    /\ pc' = "delete"
    /\ UNCHANGED <<rows, tables, n>>

\* what a row written by the entity may hold in a column
Stored(key) == {None} \cup {a \in Args(key) : HasAt(a)}

PriorRows ==
    {[id |-> i, email |-> e, backup_email |-> b] :
        i \in 1..MaxPrior, e \in Stored("email"), b \in Stored("backup_email")}

\* the tables the seed script may find: at most one row for each id
PriorTables ==
    {t \in SUBSET PriorRows : \A r1 \in t, r2 \in t : r1.id = r2.id => r1 = r2}

SeedInit ==
    /\ pending = <<>>
    /\ wiped = FALSE
    /\ failed = FALSE
    /\ err = "none"
    /\ runs = 0
    /\ n = 0
    /\ objs = <<>>
    /\ pc = "delete"
    /\ tables = {EmailAddressTable}
    /\ rows \in PriorTables

SeedNext ==
    \/ SeedDelete
    \/ SeedLoop
    \/ SeedAddAll
    \/ SeedCommit
    \/ SeedExit

SeedSpec == SeedInit /\ [][SeedNext]_vars

(* ----------------------------- properties ------------------------------- *)
\* a keyword of the constructor that cannot raise: left out, or holding '@'
Passes(a) == a = None \/ HasAt(a)

WithAt == {s \in Strings : HasAt(s)}

WithoutAt == {s \in Strings : ~HasAt(s)}

\* C1: every string s that holds '@', with several '@' too, is accepted: the
\* assignment of s to either attribute raises nothing and the attribute then
\* equals s, and so does the construction with s (the other keyword left out or
\* valid as well).
C1_ValidAccepted ==
    [][ /\ objs["email"].state # "unbound"
           => \A key \in Keys, s \in WithAt :
                 ValidateAssign(key, s) => err' = "none" /\ objs'["email"][key] = s
        /\ objs["email"].state = "unbound"
           => \A e \in WithAt \cup {None}, b \in WithAt \cup {None} :
                 ValidateConstruct(e, b)
                    => /\ err' = "none"
                       /\ objs'["email"].state = "transient"
                       /\ objs'["email"].email = e
                       /\ objs'["email"].backup_email = b ]_vars

\* an instance holds strings with two '@' that were accepted
C1_Witness ==
    /\ err = "none"
    /\ objs["email"].email = <<"@", "@">>
    /\ objs["email"].backup_email = <<"a", "@">>

\* C2: every string s without '@', the empty one too, is refused: the
\* assignment of s, and the construction with s as either keyword, raise
\* ValueError; no attribute and no name changes, and neither do the staged set
\* and the stored rows.
C2_InvalidRefused ==
    [][ /\ objs["email"].state # "unbound"
           => \A key \in Keys, s \in WithoutAt :
                 ValidateAssign(key, s)
                    => err' = "ValueError" /\ UNCHANGED <<objs, pending, rows, wiped>>
        /\ objs["email"].state = "unbound"
           => \A s \in WithoutAt, o \in Strings \cup {None} :
                 ValidateConstruct(s, o) \/ ValidateConstruct(o, s)
                    => err' = "ValueError" /\ UNCHANGED <<objs, pending, rows, wiped>> ]_vars

\* a ValueError was raised while the instance was staged and a row stored
C2_Witness ==
    /\ err = "ValueError"
    /\ pending # <<>>
    /\ rows # {}

\* C3: every stored row holds '@' in email and in backup_email.
C3_RowsHoldAt ==
    \A row \in rows : HasAt(row.email) /\ HasAt(row.backup_email)

\* C4: every instance in memory holds '@' in email and in backup_email.
C4_InstancesHoldAt ==
    \A r \in DOMAIN objs :
        objs[r].state # "unbound" => HasAt(objs[r].email) /\ HasAt(objs[r].backup_email)

\* C5: a commit that succeeds stores each staged instance that holds two valid
\* addresses and no id: the instance has an id afterwards, exactly one stored
\* row has that id, and that row holds the instance's two addresses.
C5_RoundTrip ==
    [][ Commit /\ err' = "none"
           => \A r \in Refs :
                 /\ objs[r].state = "pending" /\ objs[r].id = NoId
                 /\ HasAt(objs[r].email) /\ HasAt(objs[r].backup_email)
                 => /\ objs'[r].id # NoId
                    /\ Cardinality(QueryGet(rows', objs'[r].id)) = 1
                    /\ \A row \in QueryGet(rows', objs'[r].id) :
                          /\ row.email = objs[r].email
                          /\ row.backup_email = objs[r].backup_email ]_vars

\* a valid instance was committed beside another row
C5_Witness ==
    /\ err = "none"
    /\ pending = <<>>
    /\ Cardinality(rows) >= 2
    /\ \E r \in Refs :
          /\ objs[r].state = "persistent"
          /\ HasAt(objs[r].email) /\ HasAt(objs[r].backup_email)
          /\ \E row \in rows : row = Row(objs[r], objs[r].id)

\* add and commit of a new valid instance succeed from s and store its row and
\* nothing else
AcceptsNew(s) ==
    LET c  == EmailAddress(NoId, <<"a", "@">>, <<"@", "@">>)
        s1 == construct(s, c, [s.objs EXCEPT !["em"] = c.obj])
        s2 == commit(add(s1, "em"))
    IN  /\ s2.err = "none"
        /\ ~s2.failed
        /\ s2.rows = s.rows \cup {Row(c.obj, NextRowId(s.rows))}
        /\ Cardinality(s2.rows) = Cardinality(s.rows) + 1

\* C6: a commit that raises IntegrityError stores nothing, and the rollback of
\* the except branch empties the staged set, leaves the stored rows as they
\* were and every persistent instance equal to its stored row, and leaves a
\* session in which add and commit of a new valid instance succeed and store
\* that instance alone.
C6_RollbackRecovers ==
    [][ /\ Commit /\ err' = "IntegrityError" => failed' /\ rows' = rows
        /\ Recover
              => /\ pending' = <<>>
                 /\ \A r \in Refs : objs'[r].state # "pending"
                 /\ \A r \in Refs : objs'[r].state = "persistent"
                                        => Row(objs'[r], objs'[r].id) \in rows'
                 /\ rows' = rows
                 /\ ~failed' /\ ~wiped'
                 /\ AcceptsNew(Here') ]_vars

\* the except branch has run on a table that holds a row
C6_Witness ==
    /\ err = "blocked"
    /\ rows # {}
    /\ \E r \in Refs : objs[r].state = "transient" /\ objs[r].id \in TableIds(rows)

SeedRow(id) == [id |-> id, email |-> SeedEmail, backup_email |-> SeedEmail]

\* C7: whatever the table held, a seed run ends with exactly 25 rows, each
\* holding 'email@email.com' twice, and raises nothing on the way.
C7_SeedLeaves25 ==
    /\ err = "none"
    /\ pc = "exit"
          => /\ Cardinality(rows) = SeedCount
             /\ \A row \in rows : row.email = SeedEmail /\ row.backup_email = SeedEmail

\* a seed run has ended on a table an earlier seed run filled
C7_Witness ==
    /\ pc = "exit"
    /\ runs >= 1
    /\ rows = {SeedRow(i) : i \in 1..SeedCount}

\* C8: a delete-all that is executed leaves no row in the table the session
\* reads, at once and before any commit; the commit that follows stores the
\* instances staged since and nothing else.
C8_DeleteAllEmpties ==
    [][ /\ DeleteAll /\ err' = "none" => View(Here') = {}
        /\ wiped /\ Commit /\ err' = "none"
              => Cardinality(rows') = Len(pending) ]_vars

\* a delete-all was executed on a table that held rows, and is not committed
C8_Witness ==
    /\ wiped
    /\ err = "none"
    /\ rows # {}

\* C9: create_all on a database that has the table changes neither the set of
\* tables nor a row, on every start of the process.
C9_CreateAllIdempotent ==
    [][ ScriptCreateAll /\ AddressTable \in tables => UNCHANGED <<tables, rows>> ]_vars

\* create_all has run on a later start, on a table that holds rows
C9_Witness ==
    /\ pc = "construct"
    /\ runs >= 2
    /\ Cardinality(rows) >= 2

\* C10: the except branch of the validations script is never taken, and after
\* k runs the table holds k rows with k distinct ids, each holding the script's
\* two addresses.
C10_ScriptAddsOneRow ==
    /\ err = "none"
    /\ pc = "exit"
          => /\ Cardinality(rows) = runs + 1
             /\ Cardinality(TableIds(rows)) = runs + 1
             /\ \A row \in rows :
                   row.email = FirstName /\ row.backup_email = FirstNameBackup

\* the script has ended for the third time
C10_Witness ==
    /\ pc = "exit"
    /\ runs = 2
    /\ Cardinality(rows) = 3

====
